---- MODULE Spec2Model ----
(***************************************************************************)
(* The database connectors of boardgame.io (src/server/db): a facade with  *)
(* connect/get/set/has in front of an LRU cache and a durable store.       *)
(* Three cached facades are modelled (Mongo, Firebase, SQL); they share    *)
(* the stale check of set and the re-check of get and differ in what the   *)
(* store hands back.  Every async method is cut at its await: the call     *)
(* runs up to the store call, the store answers, the method resumes.       *)
(* InMemory's methods act on their Map and then await the plain value they *)
(* got, so they too return in a later step than their call.                *)
(***************************************************************************)
EXTENDS Integers, Sequences, FiniteSets, Bags

VARIABLES backend,   \* which connector class was constructed
          connected, \* connect() has returned to its caller without an error
          cacheSize, \* the cacheSize option the constructor was given
          max,       \* this.cache: the LRU's max option
          cache,     \* this.cache: entries, most recently used first
          store,     \* the durable store: per game id, the documents persisted
          ops,       \* the async calls in flight (a bag: two calls may be alike)
          ret,       \* what the step just taken returned to a caller, if anything
          maxSeen,   \* per id, the highest stateID a get has returned (-1: none)
          wasSet,    \* ids on which set has been called
          persisted, \* ids for which some set returned after its store write
          evicted,   \* ids whose cache entry has been evicted at some time
          scen,      \* progress of a set / older set / get sequence on one id
          sets,      \* per id, the last state given to set and the highest stateID
          watch,     \* which of the history variables this run keeps
          boot       \* the construction: environment, class, options, engine, this.db

vars == <<backend, connected, cacheSize, max, cache, store, ops, ret, maxSeen, wasSet,
          persisted, evicted, scen, sets, watch, boot>>

(* Bounds of the model. *)
NumIDs == 2
MaxStateID == 1
MaxOps == 2
MaxCacheArg == 1
MaxDocs == 2

(* cacheSize when the constructor is given none. *)
DefaultCacheSize == 1000

GameIDs == 1..NumIDs
StateIDs == 0..MaxStateID

(* The connectors that keep an LRU cache in front of their store, and all  *)
(* connectors: InMemory keeps a Map and no cache.                          *)
Cached == {"Mongo", "Firebase", "SQL"}

Backends == Cached \cup {"InMemory"}

(* JavaScript values.  Every value is a record with a tag, so that values  *)
(* of different shapes can be compared.                                    *)
Undefined == [tag |-> "undefined"]
Null == [tag |-> "null"]
StoreError == [tag |-> "error"]
Ack == [tag |-> "ack"]
ConnError == [tag |-> "connError"]
True == [tag |-> "true"]
False == [tag |-> "false"]

(* A game state { _stateID: n }, with or without an _id field. *)
State(n, withId) == [tag |-> "state", stateID |-> n, hasId |-> withId]

IsState(v) == v.tag = "state"

(* The states a caller may pass to set. *)
CallerStates == {State(n, w) : n \in StateIDs, w \in BOOLEAN}


(***************************************************************************)
(* lru-cache, as the connectors use it: new LRU({ max }), get, set.         *)
(* An entry is [id, val]; the sequence runs from most to least recently    *)
(* used.                                                                   *)
(***************************************************************************)
CacheIds(c) == {c[i].id : i \in DOMAIN c}

CacheHas(c, id) == id \in CacheIds(c)

(* The value cache.get(id) returns: the entry's value, or undefined. *)
CacheValue(c, id) ==
  IF CacheHas(c, id)
    THEN (CHOOSE e \in {c[i] : i \in DOMAIN c} : e.id = id).val
    ELSE Undefined

Without(c, id) == SelectSeq(c, LAMBDA e : e.id # id)

(* The cache after cache.get(id): a hit makes the entry the most recent. *)
LRUGet(c, id) ==
  IF CacheHas(c, id)
    THEN <<[id |-> id, val |-> CacheValue(c, id)]>> \o Without(c, id)
    ELSE c

(* The cache after cache.set(id, v) under capacity m: the entry becomes the *)
(* most recent one and the least recently used entries beyond m are dropped. *)
LRUSet(c, id, v, m) ==
  LET put == <<[id |-> id, val |-> v]>> \o Without(c, id)
  IN  IF Len(put) > m THEN SubSeq(put, 1, m) ELSE put

(***************************************************************************)
(* Constructors: cacheSize defaults to 1000 and becomes the LRU's max.     *)
(***************************************************************************)
CacheSizeArgs == {Undefined} \cup {[tag |-> "number", n |-> k] : k \in 1..MaxCacheArg}

(* A faulty variant of the constructors: the cacheSize option is ignored. *)
ConstructorIgnoresSize(size) == DefaultCacheSize

Constructor(size) ==
  IF size.tag = "undefined" THEN DefaultCacheSize ELSE size.n

(***************************************************************************)
(* Property access and comparison as JavaScript evaluates them: reading    *)
(* _stateID off an object without that field gives undefined, and          *)
(* undefined >= n is false.                                                *)
(***************************************************************************)
StateIDOf(v) ==
  IF IsState(v) THEN [defined |-> TRUE, n |-> v.stateID]
                ELSE [defined |-> FALSE, n |-> 0]

JsGeq(x, y) == x.defined /\ y.defined /\ x.n >= y.n

Num(k) == [defined |-> TRUE, n |-> k]

(* A faulty variant of set: the _id field is left in place. *)
DeleteIdForgotten(st) == st

(* delete state._id *)
DeleteId(st) == [st EXCEPT !.hasId = FALSE]

(***************************************************************************)
(* The durable store behind each connector.  store[id] is the sequence of  *)
(* documents persisted for id, oldest first: Mongo inserts a new document  *)
(* per set; Firebase's set and SQL's upsert replace the one document.      *)
(***************************************************************************)
StoreWrite(b, docs, st) ==
  IF b = "Mongo" THEN Append(docs, st) ELSE <<st>>

(* SQL.get and SQL.has read through this.db.findOne.  this.db is the       *)
(* Sequelize connection (new Sequelize(...)), which has define,            *)
(* authenticate and sync; findOne is a method of the model this.game, the  *)
(* object set writes through.  The call throws a TypeError before any      *)
(* store call is made.                                                     *)
ReadThrows(b) == b = "SQL"

(* What the read of get hands back.  Mongo: docs[0] of                     *)
(* find().sort({_id: -1}).limit(1), the newest document, which carries the *)
(* _id Mongo gave it (undefined when the collection is empty).  Firebase:  *)
(* data()/val(), the stored object or null.                                *)
StoreFind(b, docs) ==
  IF b = "Mongo"
    THEN IF Len(docs) > 0 THEN [docs[Len(docs)] EXCEPT !.hasId = TRUE]
                          ELSE Undefined
    ELSE IF Len(docs) > 0 THEN docs[Len(docs)] ELSE Null

(* What the existence lookup of has hands back: docs.length > 0 (Mongo),   *)
(* data.exists / data.exists() (Firebase).                                 *)
StoreExists(b, docs) == IF Len(docs) > 0 THEN True ELSE False

(* `if (doc)` / `docs.length > 0`: the read found a document. *)
Found(doc) == doc.tag \notin {"undefined", "null"}


(***************************************************************************)
(* The decisions of the facade, shared by Mongo, Firebase and SQL.         *)
(***************************************************************************)

(* Faulty variants of the stale check: the comparison the wrong way      *)
(* round, the check left out, and a strict comparison.                     *)
SetIsStaleReversed(cacheValue, state) ==
  /\ cacheValue.tag # "undefined"
  /\ JsGeq(StateIDOf(state), StateIDOf(cacheValue))

SetIsStaleNever(cacheValue, state) == FALSE

SetIsStaleStrict(cacheValue, state) ==
  /\ cacheValue.tag # "undefined"
  /\ StateIDOf(cacheValue).n > StateIDOf(state).n

(* set: `cacheValue && cacheValue._stateID >= state._stateID`. *)
SetIsStale(cacheValue, state) ==
  /\ cacheValue.tag # "undefined"
  /\ JsGeq(StateIDOf(cacheValue), StateIDOf(state))

(* A faulty variant of the fast path of get and has: the cache is never   *)
(* taken to hold the id.                                                   *)
CacheHitNever(cacheValue) == FALSE

(* get and has: `cacheValue !== undefined`, the cache holds the id. *)
CacheHit(cacheValue) == cacheValue.tag # "undefined"

(* A faulty variant of the re-check of get: the cache is not read again   *)
(* after the await, so oldStateID stays 0.                                 *)
GetUpdatesCacheNoRecheck(cacheValue, doc) == Found(doc) /\ IsState(doc)

(* A faulty variant of the re-check of get: newStateID starts at 0, not   *)
(* at -1.                                                                  *)
GetUpdatesCacheFromZero(cacheValue, doc) ==
  LET oldStateID == IF cacheValue.tag # "undefined"
                      THEN StateIDOf(cacheValue) ELSE Num(0)
      newStateID == IF Found(doc) THEN StateIDOf(doc) ELSE Num(0)
  IN  JsGeq(newStateID, oldStateID)

(* get, after the read: oldStateID is 0 or the cached _stateID, newStateID *)
(* is -1 or doc._stateID, and the cache is written when                    *)
(* newStateID >= oldStateID.                                               *)
GetUpdatesCache(cacheValue, doc) ==
  LET oldStateID == IF cacheValue.tag # "undefined"
                      THEN StateIDOf(cacheValue) ELSE Num(0)
      newStateID == IF Found(doc) THEN StateIDOf(doc) ELSE Num(-1)
  IN  JsGeq(newStateID, oldStateID)

(* A faulty variant of the result of get: the method ends without a       *)
(* return statement.                                                       *)
GetResultNothing(b, doc) == Undefined

(* What get returns after the read: docs[0] (Mongo), doc (Firebase). *)
GetResult(b, doc) == doc

(***************************************************************************)
(* Construction: DBFromEnv picks a connector class from process.env and    *)
(* calls its constructor; the Firebase constructor picks its engine from   *)
(* its options.  A variable of the environment is undefined (not set) or a *)
(* string, and an empty string is falsy.                                   *)
(***************************************************************************)
Str(s) == [tag |-> "string", s |-> s]

Truthy(v) == v.tag = "string" /\ v.s # ""

FirebaseVars == {"FIREBASE_APIKEY", "FIREBASE_AUTHDOMAIN", "FIREBASE_DATABASEURL",
                 "FIREBASE_PROJECTID"}

UrlVars == {"MONGO_URI", "MYSQL_URL", "SQLite_URL", "POSTGRE_URL"}

EnvValues == {Undefined, Str(""), Str("x")}

EngineValues == {Undefined, Str("RTDB"), Str("RTD"), Str("Firestore")}

(* The environments DBFromEnv is run in. *)
Environments ==
  {[v \in FirebaseVars \cup UrlVars \cup {"FIREBASE_ENGINE"} |->
      IF v = "FIREBASE_ENGINE" THEN g ELSE e[v]] :
     e \in [FirebaseVars \cup UrlVars -> EnvValues], g \in EngineValues}

(* The options object a constructor is given: url, path, whether a config  *)
(* object is there, the engine option and config.engine.                   *)
NoOptions == [url |-> Undefined, path |-> Undefined, config |-> FALSE,
              engine |-> Undefined, configEngine |-> Undefined]

(* { url } *)
UrlOptions(url) == [NoOptions EXCEPT !.url = url]

(* { config, engine }, config.engine being configEngine. *)
FirebaseOptions(engine, configEngine) ==
  [NoOptions EXCEPT !.config = TRUE, !.engine = engine, !.configEngine = configEngine]

(* DBFromEnv: the class it instantiates and the options it passes: { url } *)
(* to Mongo, MySQL, SQLite and PostgreSQL; to Firebase a config of the     *)
(* four variables (no engine in it) and engine: process.env.FIREBASE_ENGINE. *)
DBFromEnv(env) ==
  IF Truthy(env["MONGO_URI"])
    THEN [class |-> "Mongo", options |-> UrlOptions(env["MONGO_URI"])]
  ELSE IF \A v \in FirebaseVars : Truthy(env[v])
    THEN [class |-> "Firebase",
          options |-> FirebaseOptions(env["FIREBASE_ENGINE"], Undefined)]
  ELSE IF Truthy(env["MYSQL_URL"])
    THEN [class |-> "MySQL", options |-> UrlOptions(env["MYSQL_URL"])]
  ELSE IF Truthy(env["SQLite_URL"])
    THEN [class |-> "SQLite", options |-> UrlOptions(env["SQLite_URL"])]
  ELSE IF Truthy(env["POSTGRE_URL"])
    THEN [class |-> "PostgreSQL", options |-> UrlOptions(env["POSTGRE_URL"])]
  ELSE [class |-> "InMemory", options |-> NoOptions]

(* The connector of this model that stands for a class. *)
FacadeOf(class) ==
  IF class \in {"MySQL", "SQLite", "PostgreSQL"} THEN "SQL" ELSE class

(* The PostgreSQL constructor takes { url, config }, as MySQL's does. *)
PostgreSQLConstructs(options) == Truthy(options.url) \/ options.config

(* Whether new class(options) returns a connector.  MySQL takes            *)
(* { url, config, cacheSize } and SQLite { path, config, cacheSize }: with *)
(* neither of the two given, this.db stays undefined and                   *)
(* this.db.define(...) throws a TypeError.                                 *)
Constructs(class, options) ==
  CASE class = "MySQL" -> Truthy(options.url) \/ options.config
    [] class = "SQLite" -> Truthy(options.path) \/ options.config
    [] class = "PostgreSQL" -> PostgreSQLConstructs(options)
    [] OTHER -> TRUE

(* Firebase constructor:                                                   *)
(* this.engine = config.engine === 'RTD' ? config.engine : 'Firestore'.    *)
(* The engine option is not among the fields the constructor takes.        *)
FirebaseEngine(options) ==
  IF options.configEngine = Str("RTD") THEN "RTD" ELSE "Firestore"

(* Firebase.connect: this.engine === 'Firestore' ? firestore() : database() *)
FirebaseDb(engine) == IF engine = "Firestore" THEN "firestore" ELSE "database"

(* Firebase.set / get / has:                                               *)
(* this.engine === 'RTD' ? this.db.ref(id) : this.db.collection(...).doc(id) *)
FirebasePath(engine) == IF engine = "RTD" THEN "ref" ELSE "collection"

NoEnv == [v \in FirebaseVars \cup UrlVars \cup {"FIREBASE_ENGINE"} |-> Undefined]

(* Nothing constructed yet, in the environment env. *)
Boot(env) == [phase |-> "start", env |-> env, class |-> "none", options |-> NoOptions,
              engine |-> "none", db |-> "none"]

(* After new class(options) has returned. *)
Constructed(class, options) ==
  [phase |-> "made", env |-> NoEnv, class |-> class, options |-> options,
   engine |-> IF class = "Firebase" THEN FirebaseEngine(options) ELSE "none",
   db |-> "none"]

(***************************************************************************)
(* Calls in flight.                                                        *)
(***************************************************************************)
InFlight == BagToSet(ops)

(* Under "progress" every call in flight holds a ticket of its own, so     *)
(* that two like calls remain two; otherwise the ticket is 0.              *)
Tickets == 1..MaxOps

Ticket ==
  IF watch = "progress"
    THEN CHOOSE t \in Tickets :
           /\ \A o \in InFlight : o.ticket # t
           /\ \A u \in Tickets : u < t => \E o \in InFlight : o.ticket = u
    ELSE 0

(* The access path a set, get or has of a Firebase connector takes on a    *)
(* cache miss. *)
Path(kind) ==
  IF backend = "Firebase" /\ kind # "connect" THEN FirebasePath(boot.engine)
                                              ELSE "none"

Op(kind, id) == [pc |-> "await", kind |-> kind, id |-> id, state |-> Undefined,
                 reply |-> Undefined, floor |-> -1, pre |-> FALSE, ticket |-> Ticket,
                 path |-> Path(kind)]

NoneInFlight == ops = EmptyBag

(* At most MaxOps calls are in flight at a time. *)
CanStart == BagCardinality(ops) < MaxOps

Start(o) == ops (+) SetToBag({o})

Finish(o) == ops (-) SetToBag({o})

(* The call o goes on as the call n. *)
Step(o, n) == (ops (-) SetToBag({o})) (+) SetToBag({n})

Answered(o, reply) == [o EXCEPT !.pc = "ready", !.reply = reply]

PendingWrites(id) ==
  LET w == {o \in InFlight : o.kind = "set" /\ o.id = id /\ o.pc = "await"}
      Sum[S \in SUBSET w] ==
        IF S = {} THEN 0
        ELSE LET o == CHOOSE x \in S : TRUE IN CopiesIn(o, ops) + Sum[S \ {o}]
  IN  Sum[w]

NoReturn == [kind |-> "none", id |-> 0, outcome |-> "ok", val |-> Undefined,
             viaStore |-> FALSE, floor |-> -1, pre |-> FALSE]

Max2(a, b) == IF a >= b THEN a ELSE b

(* The history variables record what callers have observed; they never    *)
(* influence the connector.  A run keeps one group of them:                *)
(*   "returns"   ret alone;                                                *)
(*   "seen"      maxSeen, evicted and the floor of a get;                  *)
(*   "sets"      wasSet, persisted, failed store writes, the pre of a has; *)
(*   "sequence"  scen;                                                     *)
(*   "memory"    the last state given to InMemory's set;                   *)
(*   "calls"     the highest stateID given to set, and evicted;            *)
(*   "progress"  a ticket per call in flight;                              *)
(* or none.                                                                *)
Watching(m) == watch = m

(* maxSeen after a get of id returned val. *)
Seen(id, val) ==
  IF Watching("seen") /\ IsState(val)
    THEN [maxSeen EXCEPT ![id] = Max2(@, val.stateID)] ELSE maxSeen

Floor(id) == IF Watching("seen") THEN maxSeen[id] ELSE -1

NoteSet(id) == IF Watching("sets") THEN wasSet \cup {id} ELSE wasSet

NotePersisted(id, ok) ==
  IF Watching("sets") /\ ok THEN persisted \cup {id} ELSE persisted

Pre(id) == Watching("sets") /\ id \in persisted

(* The "memory" history is kept of the connector without a cache. *)
Remembering == Watching("memory") /\ backend = "InMemory"

(* Whether the state a caller gave to set carried an _id ("returns"). *)
HadId(state) == Watching("returns") /\ state.hasId

NoCall == [last |-> Undefined, top |-> -1, failed |-> FALSE]

(* sets after set(id, state) was called. *)
NoteCall(id, state) ==
  IF Remembering
    THEN [sets EXCEPT ![id].last = state, ![id].top = Max2(@, state.stateID)]
    ELSE IF Watching("calls")
      THEN [sets EXCEPT ![id].top = Max2(@, state.stateID)]
      ELSE sets

(* The returns a run records in ret: every one ("returns"), those of get   *)
(* ("seen", "sequence"), those of get and has ("sets", "calls", "memory"), *)
(* or none.                                                                *)
Recorded(kind) ==
  \/ Watching("returns")
  \/ kind = "get" /\ (Watching("seen") \/ Watching("sequence"))
  \/ kind \in {"get", "has"} /\ (Watching("sets") \/ Watching("calls") \/ Remembering)

Returned(kind, id, outcome, val, viaStore, floor, pre) ==
  IF Recorded(kind)
    THEN [kind |-> kind, id |-> id, outcome |-> outcome, val |-> val,
          viaStore |-> viaStore, floor |-> floor, pre |-> pre]
    ELSE NoReturn

(* sets after the store write of a set of id failed ("sets"). *)
NoteFailed(id, bad) ==
  IF Watching("sets") /\ bad THEN [sets EXCEPT ![id].failed = TRUE] ELSE sets

(* Ids whose entry a cache write pushed out. *)
Evictions(c, d) == CacheIds(c) \ CacheIds(d)

NoteEvicted(c, d) ==
  IF Watching("seen") \/ Watching("calls")
    THEN evicted \cup Evictions(c, d) ELSE evicted

NoScen == [st |-> 0, id |-> 0, a |-> 0]

(* A connector constructed from a config object (Firebase, SQL) or a url   *)
(* (Mongo), with or without a cacheSize.                                   *)
InitFacade ==
  /\ backend \in Backends
  /\ boot = Constructed(IF backend = "SQL" THEN "MySQL" ELSE backend,
                        [NoOptions EXCEPT !.config = backend \in {"SQL", "Firebase"},
                                          !.url = IF backend = "Mongo"
                                                    THEN Str("x") ELSE Undefined])
  /\ connected = FALSE
  /\ cacheSize \in CacheSizeArgs
  /\ backend = "InMemory" => cacheSize = Undefined
  /\ max = Constructor(cacheSize)
  /\ cache = <<>>
  /\ store = [id \in GameIDs |-> <<>>]
  /\ ops = EmptyBag
  /\ ret = NoReturn
  /\ maxSeen = [id \in GameIDs |-> -1]
  /\ wasSet = {}
  /\ persisted = {}
  /\ evicted = {}
  /\ scen = NoScen
  /\ sets = [id \in GameIDs |-> NoCall]

Init == InitFacade /\ watch = "none"

InitReturns == InitFacade /\ watch = "returns"

InitSeen == InitFacade /\ watch = "seen"

InitSets == InitFacade /\ watch = "sets"

InitSequence == InitFacade /\ watch = "sequence"

InitMemory == InitFacade /\ watch = "memory"

InitCalls == InitFacade /\ watch = "calls"

InitProgress == InitFacade /\ watch = "progress"

Unconstructed ==
  /\ backend = "none"
  /\ connected = FALSE
  /\ cacheSize = Undefined
  /\ max = Constructor(cacheSize)
  /\ cache = <<>>
  /\ store = [id \in GameIDs |-> <<>>]
  /\ ops = EmptyBag
  /\ ret = NoReturn
  /\ maxSeen = [id \in GameIDs |-> -1]
  /\ wasSet = {}
  /\ persisted = {}
  /\ evicted = {}
  /\ scen = NoScen
  /\ sets = [id \in GameIDs |-> NoCall]
  /\ watch = "none"

(* Before DBFromEnv(), in any environment. *)
InitConstruct == Unconstructed /\ boot \in {Boot(env) : env \in Environments}

(* Before new Firebase(...). *)
InitFirebase == Unconstructed /\ boot = Boot(NoEnv)

Facade == <<connected, cacheSize, max, cache, store, ops, ret, maxSeen, wasSet,
            persisted, evicted, scen, sets, watch>>

(* db = DBFromEnv(): the connector of the class chosen, or the TypeError   *)
(* its constructor throws.                                                 *)
DBFromEnvCall ==
  LET made == DBFromEnv(boot.env)
  IN  /\ boot.phase = "start"
      /\ IF Constructs(made.class, made.options)
           THEN /\ boot' = [Constructed(made.class, made.options)
                              EXCEPT !.env = boot.env]
                /\ backend' = FacadeOf(made.class)
           ELSE /\ boot' = [boot EXCEPT !.phase = "threw", !.class = made.class,
                                        !.options = made.options]
                /\ UNCHANGED backend
      /\ UNCHANGED Facade

NextConstruct == DBFromEnvCall

SpecConstruct == InitConstruct /\ [][NextConstruct]_vars

(* db = new Firebase({ config, engine, ... }), as the tests construct it. *)
NewFirebase(options) ==
  /\ boot.phase = "start"
  /\ boot' = Constructed("Firebase", options)
  /\ backend' = "Firebase"
  /\ UNCHANGED Facade

(***************************************************************************)
(* connect().  InMemory: a no-op.  Firebase: initializeApp and this.db =   *)
(* firestore() or database(), without an await; no connection is attempted. *)
(* Mongo and SQL await client.connect(url) / db.authenticate().  The        *)
(* callers connect a connector they have constructed once, before any get, *)
(* set or has, and may try again after connect has thrown.  The connectors *)
(* keep no record of it: connected is what the caller knows.               *)
(***************************************************************************)
ConnectCall ==
  /\ backend \in Backends
  /\ ~connected /\ NoneInFlight
  /\ IF backend \in {"InMemory", "Firebase"}
       THEN /\ connected' = TRUE
            /\ boot' = IF backend = "Firebase"
                         THEN [boot EXCEPT !.db = FirebaseDb(boot.engine)] ELSE boot
            /\ ret' = Returned("connect", 0, "ok", Undefined, FALSE, -1, FALSE)
            /\ UNCHANGED ops
       ELSE /\ ops' = Start(Op("connect", 0))
            /\ ret' = NoReturn
            /\ UNCHANGED <<connected, boot>>
  /\ UNCHANGED <<watch, sets, backend, cacheSize, max, cache, store, maxSeen, wasSet,
                 persisted, evicted, scen>>

(* What the awaited call of connect resolves to: the client (Mongo), or    *)
(* what authenticate() resolves to (SQL), which connect takes for a         *)
(* connection error when it is truthy.                                     *)
ConnectReplies(b) == IF b = "SQL" THEN {Ack, ConnError} ELSE {Ack}

(* The store answers the connection attempt of a pending connect. *)
StoreConnect(o) ==
  /\ o.pc = "await" /\ o.kind = "connect"
  /\ \E reply \in ConnectReplies(backend) : ops' = Step(o, Answered(o, reply))
  /\ ret' = NoReturn
  /\ UNCHANGED <<watch, boot, sets, connected, backend, cacheSize, max, cache, store, maxSeen,
                 wasSet, persisted, evicted, scen>>

(* connect resumes after its await.  SQL: `if (c) return                   *)
(* console.error(...)`, else this.game.sync(); Mongo: this.db = c.db(...). *)
(* Either way connect returns normally, and the caller goes on to get, set *)
(* and has.  A rejection of the awaited call is thrown to the caller.      *)
ConnectReturn(o) ==
  /\ o.pc = "ready" /\ o.kind = "connect"
  /\ ops' = Finish(o)
  /\ connected' = (o.reply.tag # "error")
  /\ ret' = Returned("connect", 0,
                      IF o.reply.tag = "error" THEN "storeError" ELSE "ok",
                      Undefined, TRUE, -1, FALSE)
  /\ UNCHANGED <<watch, boot, sets, backend, cacheSize, max, cache, store, maxSeen, wasSet,
                 persisted, evicted, scen>>

(***************************************************************************)
(* InMemory: `return await this.games.set(id, state)` and likewise get and *)
(* has.  The method acts on this.games (a Map), then awaits the value it   *)
(* got, which is no promise: it resumes, and returns that value, in a      *)
(* later turn of the event loop, after whatever else was called meanwhile. *)
(* store[id] holds the value of the Map for id, the very object set was    *)
(* given.                                                                  *)
(***************************************************************************)
(* A faulty variant of InMemory.set: a state that is not newer than the   *)
(* stored one is dropped, as the cached connectors do.                     *)
InMemorySetIfNewer(id, state) ==
  LET old == IF Len(store[id]) > 0 THEN store[id][1] ELSE Undefined
  IN  /\ connected /\ backend = "InMemory" /\ CanStart
      /\ store' = [store EXCEPT ![id] = IF SetIsStale(old, state) THEN @ ELSE <<state>>]
      /\ ops' = Start(Answered([Op("set", id) EXCEPT !.state = state,
                                                     !.pre = HadId(state)], Ack))
      /\ ret' = NoReturn
      /\ wasSet' = NoteSet(id)
      /\ sets' = NoteCall(id, state)
      /\ scen' = NoScen
      /\ UNCHANGED <<watch, boot, connected, backend, cacheSize, max, cache, maxSeen,
                     persisted, evicted>>

(* set(id, state), up to its await: the Map is written. *)
InMemorySet(id, state) ==
  /\ connected /\ backend = "InMemory" /\ CanStart
  /\ store' = [store EXCEPT ![id] = <<state>>]
  /\ ops' = Start(Answered([Op("set", id) EXCEPT !.state = state,
                                                 !.pre = HadId(state)], Ack))
  /\ ret' = NoReturn
  /\ wasSet' = NoteSet(id)
  /\ sets' = NoteCall(id, state)
  /\ scen' = NoScen
  /\ UNCHANGED <<watch, boot, connected, backend, cacheSize, max, cache, maxSeen,
                 persisted, evicted>>

(* set resumes and returns (the Map, which callers ignore). *)
InMemorySetReturn(o) ==
  /\ backend = "InMemory" /\ o.pc = "ready" /\ o.kind = "set"
  /\ ops' = Finish(o)
  /\ ret' = Returned("set", o.id, "ok", Ack, FALSE, -1, o.pre)
  /\ persisted' = NotePersisted(o.id, TRUE)
  /\ scen' = NoScen
  /\ UNCHANGED <<watch, boot, sets, connected, backend, cacheSize, max, cache, store,
                 maxSeen, wasSet, evicted>>

(* get(id), up to its await: the Map is read. *)
InMemoryGet(id) ==
  LET val == IF Len(store[id]) > 0 THEN store[id][1] ELSE Undefined
  IN  /\ connected /\ backend = "InMemory" /\ CanStart
      /\ ops' = Start(Answered([Op("get", id) EXCEPT !.floor = Floor(id)], val))
      /\ ret' = NoReturn
      /\ scen' = NoScen
      /\ UNCHANGED <<watch, boot, sets, connected, backend, cacheSize, max, cache, store,
                     maxSeen, wasSet, persisted, evicted>>

(* get resumes and returns what it read. *)
InMemoryGetReturn(o) ==
  /\ backend = "InMemory" /\ o.pc = "ready" /\ o.kind = "get"
  /\ ops' = Finish(o)
  /\ ret' = Returned("get", o.id, "ok", o.reply, FALSE, o.floor, FALSE)
  /\ maxSeen' = Seen(o.id, o.reply)
  /\ scen' = NoScen
  /\ UNCHANGED <<watch, boot, sets, connected, backend, cacheSize, max, cache, store,
                 wasSet, persisted, evicted>>

(* has(id), up to its await: the Map is asked. *)
InMemoryHas(id) ==
  /\ connected /\ backend = "InMemory" /\ CanStart
  /\ ops' = Start(Answered([Op("has", id) EXCEPT !.pre = Pre(id)],
                           IF Len(store[id]) > 0 THEN True ELSE False))
  /\ ret' = NoReturn
  /\ scen' = NoScen
  /\ UNCHANGED <<watch, boot, sets, connected, backend, cacheSize, max, cache, store,
                 maxSeen, wasSet, persisted, evicted>>

(* has resumes and returns what the Map said. *)
InMemoryHasReturn(o) ==
  /\ backend = "InMemory" /\ o.pc = "ready" /\ o.kind = "has"
  /\ ops' = Finish(o)
  /\ ret' = Returned("has", o.id, "ok", o.reply, FALSE, -1, o.pre)
  /\ scen' = NoScen
  /\ UNCHANGED <<watch, boot, sets, connected, backend, cacheSize, max, cache, store,
                 maxSeen, wasSet, persisted, evicted>>


(* A faulty variant of set: the cache is left to be written later, not    *)
(* before the store write is issued.                                       *)
SetCallNoCacheWrite(id, state) ==
  LET cacheValue == CacheValue(cache, id)
      touched == LRUGet(cache, id)
      stored == DeleteId(state)
      written == touched
      follows == scen.st = 2 /\ scen.id = id /\ state.stateID < scen.a
      starts == Watching("sequence") /\ NoneInFlight
  IN  /\ connected /\ backend \in Cached
      /\ wasSet' = NoteSet(id)
      /\ sets' = NoteCall(id, state)
      /\ IF SetIsStale(cacheValue, state)
           THEN /\ cache' = touched
                /\ ret' = Returned("set", id, "ok", Ack, FALSE, -1, FALSE)
                /\ scen' = IF follows THEN [scen EXCEPT !.st = 4] ELSE NoScen
                /\ UNCHANGED <<ops, evicted>>
           ELSE /\ CanStart
                /\ backend = "Mongo" => Len(store[id]) + PendingWrites(id) < MaxDocs
                /\ cache' = written
                /\ evicted' = NoteEvicted(touched, written)
                /\ ops' = Start([Op("set", id) EXCEPT !.state = stored,
                                                      !.pre = HadId(state)])
                /\ scen' = IF follows THEN [scen EXCEPT !.st = 3]
                           ELSE IF starts
                             THEN [st |-> 1, id |-> id, a |-> state.stateID]
                             ELSE NoScen
                /\ ret' = NoReturn
      /\ UNCHANGED <<watch, boot, connected, backend, cacheSize, max, store, maxSeen, persisted>>

(***************************************************************************)
(* set(id, state), up to its await (or its return when the write is        *)
(* stale).  cache.set stores the very object that `delete state._id` then  *)
(* changes, so the cached value loses the field as well.                   *)
(***************************************************************************)
SetCall(id, state) ==
  LET cacheValue == CacheValue(cache, id)
      touched == LRUGet(cache, id)
      stored == DeleteId(state)
      written == LRUSet(touched, id, stored, max)
      follows == scen.st = 2 /\ scen.id = id /\ state.stateID < scen.a
      starts == Watching("sequence") /\ NoneInFlight
  IN  /\ connected /\ backend \in Cached
      /\ wasSet' = NoteSet(id)
      /\ sets' = NoteCall(id, state)
      /\ IF SetIsStale(cacheValue, state)
           THEN /\ cache' = touched
                /\ ret' = Returned("set", id, "ok", Ack, FALSE, -1, FALSE)
                /\ scen' = IF follows THEN [scen EXCEPT !.st = 4] ELSE NoScen
                /\ UNCHANGED <<ops, evicted>>
           ELSE /\ CanStart
                /\ backend = "Mongo" => Len(store[id]) + PendingWrites(id) < MaxDocs
                /\ cache' = written
                /\ evicted' = NoteEvicted(touched, written)
                /\ ops' = Start([Op("set", id) EXCEPT !.state = stored,
                                                      !.pre = HadId(state)])
                /\ scen' = IF follows THEN [scen EXCEPT !.st = 3]
                           ELSE IF starts
                             THEN [st |-> 1, id |-> id, a |-> state.stateID]
                             ELSE NoScen
                /\ ret' = NoReturn
      /\ UNCHANGED <<watch, boot, connected, backend, cacheSize, max, store, maxSeen, persisted>>

(* A faulty variant of the store write: the document is written under     *)
(* every game id, not under the id of the set alone.                       *)
StoreInsertEverywhere(o) ==
  /\ o.pc = "await" /\ o.kind = "set"
  /\ store' = [id \in GameIDs |->
                 IF id = o.id \/ Len(store[id]) > 0
                   THEN <<o.state>> ELSE store[id]]
  /\ ops' = Step(o, Answered(o, Ack))
  /\ ret' = NoReturn
  /\ UNCHANGED <<watch, boot, sets, connected, backend, cacheSize, max, cache, maxSeen, wasSet, persisted, evicted, scen>>

(* The store carries out the write of a pending set. *)
StoreInsert(o) ==
  /\ o.pc = "await" /\ o.kind = "set"
  /\ store' = [store EXCEPT ![o.id] = StoreWrite(backend, @, o.state)]
  /\ ops' = Step(o, Answered(o, Ack))
  /\ ret' = NoReturn
  /\ UNCHANGED <<watch, boot, sets, connected, backend, cacheSize, max, cache, maxSeen, wasSet, persisted, evicted, scen>>

(* A faulty variant of the resumption of set: the await sits in a         *)
(* try/catch that drops the store's failure.                               *)
SetReturnSwallows(o) ==
  /\ backend \in Cached /\ o.pc = "ready" /\ o.kind = "set"
  /\ ops' = Finish(o)
  /\ ret' = Returned("set", o.id, "ok", Ack, TRUE, -1, FALSE)
  /\ persisted' = NotePersisted(o.id, TRUE)
  /\ scen' = NoScen
  /\ UNCHANGED <<watch, boot, sets, connected, backend, cacheSize, max, cache, store, maxSeen, wasSet, evicted>>

(* set resumes after `await col.insert(state)` / col.set / game.upsert:    *)
(* it returns, or the store's failure is thrown to the caller.             *)
SetReturn(o) ==
  LET ok == o.reply.tag # "error"
  IN  /\ backend \in Cached /\ o.pc = "ready" /\ o.kind = "set"
      /\ ops' = Finish(o)
      /\ ret' = Returned("set", o.id, IF ok THEN "ok" ELSE "storeError",
                          Ack, TRUE, -1, o.pre)
      /\ persisted' = NotePersisted(o.id, ok)
      /\ sets' = NoteFailed(o.id, ~ok)
      /\ scen' = IF ok /\ scen.st \in {1, 3}
                   THEN [scen EXCEPT !.st = scen.st + 1] ELSE NoScen
      /\ UNCHANGED <<watch, boot, connected, backend, cacheSize, max, cache, store, maxSeen, wasSet, evicted>>

(***************************************************************************)
(* get(id), up to its await (or its return on a cache hit).  SQL: on a     *)
(* miss the call of this.db.findOne throws and get rejects with the        *)
(* TypeError, no store call made.                                          *)
(***************************************************************************)
GetCall(id) ==
  LET cacheValue == CacheValue(cache, id)
      follows == scen.st = 4 /\ scen.id = id
  IN  /\ connected /\ backend \in Cached
      /\ cache' = LRUGet(cache, id)
      /\ IF CacheHit(cacheValue)
           THEN /\ ret' = Returned("get", id, "ok", cacheValue, FALSE,
                                    Floor(id), FALSE)
                /\ maxSeen' = Seen(id, cacheValue)
                /\ scen' = IF follows THEN [scen EXCEPT !.st = 6] ELSE NoScen
                /\ UNCHANGED ops
           ELSE IF ReadThrows(backend)
           THEN /\ ret' = Returned("get", id, "typeError", Undefined, FALSE,
                                    Floor(id), FALSE)
                /\ scen' = NoScen
                /\ UNCHANGED <<ops, maxSeen>>
           ELSE /\ CanStart
                /\ ops' = Start([Op("get", id) EXCEPT !.floor = Floor(id)])
                /\ scen' = IF follows THEN [scen EXCEPT !.st = 5] ELSE NoScen
                /\ ret' = NoReturn
                /\ UNCHANGED maxSeen
      /\ UNCHANGED <<watch, boot, sets, connected, backend, cacheSize, max, store, wasSet, persisted, evicted>>

(* The store carries out the read of a pending get. *)
StoreRead(o) ==
  /\ o.pc = "await" /\ o.kind = "get"
  /\ ops' = Step(o, Answered(o, StoreFind(backend, store[o.id])))
  /\ ret' = NoReturn
  /\ UNCHANGED <<watch, boot, sets, connected, backend, cacheSize, max, cache, store, maxSeen, wasSet, persisted,
                 evicted, scen>>

(* A faulty variant of the resumption of get: the method holds a lock on  *)
(* the id and resumes only when no write for the id is pending.            *)
GetReturnAfterWrites(o) ==
  LET id == o.id
      doc == o.reply
      cacheValue == CacheValue(cache, id)
      touched == LRUGet(cache, id)
      written == IF GetUpdatesCache(cacheValue, doc)
                   THEN LRUSet(touched, id, doc, max) ELSE touched
      result == GetResult(backend, doc)
  IN  /\ backend \in Cached /\ o.pc = "ready" /\ o.kind = "get"
      /\ PendingWrites(id) = 0
      /\ ops' = Finish(o)
      /\ IF doc.tag = "error"
           THEN /\ ret' = Returned("get", id, "storeError", Undefined, TRUE,
                                    o.floor, FALSE)
                /\ scen' = NoScen
                /\ UNCHANGED <<cache, maxSeen, evicted>>
           ELSE /\ cache' = written
                /\ evicted' = NoteEvicted(touched, written)
                /\ ret' = Returned("get", id, "ok", result, TRUE, o.floor, FALSE)
                /\ maxSeen' = Seen(id, result)
                /\ scen' = IF scen.st = 5 THEN [scen EXCEPT !.st = 6] ELSE NoScen
      /\ UNCHANGED <<watch, boot, sets, connected, backend, cacheSize, max, store, wasSet, persisted>>

(* get resumes after the read: it reads the cache again, writes the        *)
(* document into the cache if it is not older than the cached one, and     *)
(* returns the document; a failure of the store is thrown instead.         *)
GetReturn(o) ==
  LET id == o.id
      doc == o.reply
      cacheValue == CacheValue(cache, id)
      touched == LRUGet(cache, id)
      written == IF GetUpdatesCache(cacheValue, doc)
                   THEN LRUSet(touched, id, doc, max) ELSE touched
      result == GetResult(backend, doc)
  IN  /\ backend \in Cached /\ o.pc = "ready" /\ o.kind = "get"
      /\ ops' = Finish(o)
      /\ IF doc.tag = "error"
           THEN /\ ret' = Returned("get", id, "storeError", Undefined, TRUE,
                                    o.floor, FALSE)
                /\ scen' = NoScen
                /\ UNCHANGED <<cache, maxSeen, evicted>>
           ELSE /\ cache' = written
                /\ evicted' = NoteEvicted(touched, written)
                /\ ret' = Returned("get", id, "ok", result, TRUE, o.floor, FALSE)
                /\ maxSeen' = Seen(id, result)
                /\ scen' = IF scen.st = 5 THEN [scen EXCEPT !.st = 6] ELSE NoScen
      /\ UNCHANGED <<watch, boot, sets, connected, backend, cacheSize, max, store, wasSet, persisted>>

(***************************************************************************)
(* has(id), up to its await (or its return on a cache hit).  SQL: on a     *)
(* miss the call of this.db.findOne throws, as in get.                     *)
(***************************************************************************)
HasCall(id) ==
  LET cacheValue == CacheValue(cache, id)
  IN  /\ connected /\ backend \in Cached
      /\ cache' = LRUGet(cache, id)
      /\ IF CacheHit(cacheValue)
           THEN /\ ret' = Returned("has", id, "ok", True, FALSE, -1,
                                    Pre(id))
                /\ UNCHANGED ops
           ELSE IF ReadThrows(backend)
           THEN /\ ret' = Returned("has", id, "typeError", Undefined, FALSE, -1,
                                    Pre(id))
                /\ UNCHANGED ops
           ELSE /\ CanStart
                /\ ops' = Start([Op("has", id) EXCEPT !.pre = Pre(id)])
                /\ ret' = NoReturn
      /\ scen' = NoScen
      /\ UNCHANGED <<watch, boot, sets, connected, backend, cacheSize, max, store, maxSeen, wasSet, persisted, evicted>>

(* The store carries out the existence lookup of a pending has. *)
StoreLookup(o) ==
  /\ o.pc = "await" /\ o.kind = "has"
  /\ ops' = Step(o, Answered(o, StoreExists(backend, store[o.id])))
  /\ ret' = NoReturn
  /\ UNCHANGED <<watch, boot, sets, connected, backend, cacheSize, max, cache, store, maxSeen, wasSet, persisted,
                 evicted, scen>>

(* A faulty variant of the resumption of has: an id the store knows is     *)
(* entered into the cache.                                                 *)
HasReturnCaches(o) ==
  LET ok == o.reply.tag # "error"
  IN  /\ backend \in Cached /\ o.pc = "ready" /\ o.kind = "has"
      /\ ops' = Finish(o)
      /\ ret' = Returned("has", o.id, IF ok THEN "ok" ELSE "storeError",
                          IF ok THEN o.reply ELSE Undefined, TRUE, -1,
                          o.pre)
      /\ cache' = IF o.reply.tag = "true"
                    THEN LRUSet(cache, o.id, State(0, FALSE), max) ELSE cache
      /\ UNCHANGED <<watch, boot, sets, connected, backend, cacheSize, max, store, maxSeen, wasSet,
                     persisted, evicted, scen>>

(* has resumes after the lookup and returns what the store said. *)
HasReturn(o) ==
  LET ok == o.reply.tag # "error"
  IN  /\ backend \in Cached /\ o.pc = "ready" /\ o.kind = "has"
      /\ ops' = Finish(o)
      /\ ret' = Returned("has", o.id, IF ok THEN "ok" ELSE "storeError",
                          IF ok THEN o.reply ELSE Undefined, TRUE, -1,
                          o.pre)
      /\ UNCHANGED <<watch, boot, sets, connected, backend, cacheSize, max, cache, store, maxSeen, wasSet, persisted,
                     evicted, scen>>

(* The store call of a pending get, set or has fails: nothing is written   *)
(* and the awaiting method is handed the failure.                          *)
StoreFail(o) ==
  /\ o.pc = "await"
  /\ ops' = Step(o, Answered(o, StoreError))
  /\ ret' = NoReturn
  /\ UNCHANGED <<watch, boot, sets, connected, backend, cacheSize, max, cache, store, maxSeen, wasSet, persisted,
                 evicted, scen>>

Next ==
  \/ ConnectCall
  \/ \E o \in InFlight : StoreConnect(o)
  \/ \E o \in InFlight : ConnectReturn(o)
  \/ \E id \in GameIDs, state \in CallerStates : InMemorySet(id, state)
  \/ \E id \in GameIDs : InMemoryGet(id)
  \/ \E id \in GameIDs : InMemoryHas(id)
  \/ \E o \in InFlight : InMemorySetReturn(o)
  \/ \E o \in InFlight : InMemoryGetReturn(o)
  \/ \E o \in InFlight : InMemoryHasReturn(o)
  \/ \E id \in GameIDs, state \in CallerStates : SetCall(id, state)
  \/ \E id \in GameIDs : GetCall(id)
  \/ \E id \in GameIDs : HasCall(id)
  \/ \E o \in InFlight : StoreInsert(o)
  \/ \E o \in InFlight : StoreRead(o)
  \/ \E o \in InFlight : StoreLookup(o)
  \/ \E o \in InFlight : StoreFail(o)
  \/ \E o \in InFlight : SetReturn(o)
  \/ \E o \in InFlight : GetReturn(o)
  \/ \E o \in InFlight : HasReturn(o)

Spec == Init /\ [][Next]_vars

SpecReturns == InitReturns /\ [][Next]_vars

SpecSeen == InitSeen /\ [][Next]_vars

SpecSets == InitSets /\ [][Next]_vars

SpecSequence == InitSequence /\ [][Next]_vars

SpecMemory == InitMemory /\ [][Next]_vars

SpecCalls == InitCalls /\ [][Next]_vars

(* A Firebase connector, from new Firebase(...) on. *)
NextFirebase ==
  \/ \E engine, configEngine \in EngineValues :
       NewFirebase(FirebaseOptions(engine, configEngine))
  \/ ConnectCall
  \/ \E id \in GameIDs, state \in CallerStates : SetCall(id, state)
  \/ \E id \in GameIDs : GetCall(id)
  \/ \E id \in GameIDs : HasCall(id)
  \/ \E o \in InFlight : StoreInsert(o)
  \/ \E o \in InFlight : StoreRead(o)
  \/ \E o \in InFlight : StoreLookup(o)
  \/ \E o \in InFlight : StoreFail(o)
  \/ \E o \in InFlight : SetReturn(o)
  \/ \E o \in InFlight : GetReturn(o)
  \/ \E o \in InFlight : HasReturn(o)

SpecFirebase == InitFirebase /\ [][NextFirebase]_vars

(* The next step of the call o in flight: the store answers its call (or   *)
(* fails it), or the method resumes and returns.                           *)
Advance(o) ==
  \/ StoreConnect(o) \/ StoreInsert(o) \/ StoreRead(o) \/ StoreLookup(o)
  \/ StoreFail(o)
  \/ ConnectReturn(o) \/ SetReturn(o) \/ GetReturn(o) \/ HasReturn(o)
  \/ InMemorySetReturn(o) \/ InMemoryGetReturn(o) \/ InMemoryHasReturn(o)

AdvanceTicket(t) == \E o \in InFlight : o.ticket = t /\ Advance(o)

(* The store answers every call and the event loop resumes every method    *)
(* whose awaited promise has settled.                                      *)
SpecProgress ==
  InitProgress /\ [][Next]_vars /\ \A t \in Tickets : WF_vars(AdvanceTicket(t))


(***************************************************************************)
(* Properties.                                                             *)
(***************************************************************************)

(* The call o returns in this step. *)
Returns(o) == o.pc = "ready" /\ ops' = Finish(o)

(* C1: cache monotonicity.  No step of set or get replaces a cache entry   *)
(* for an id by a state with a lower stateID: an id cached before and      *)
(* after a step holds a stateID at least as high after it.                 *)
C1_CacheMonotonic ==
  [][\A id \in GameIDs :
       (CacheHas(cache, id) /\ CacheHas(cache', id))
         => CacheValue(cache', id).stateID >= CacheValue(cache, id).stateID]_vars

(* Both sets of stateID 0 and then 1 on one id were accepted and the entry *)
(* holding 0 was replaced by the one holding 1 (Mongo keeps both           *)
(* documents, the cache never evicts).                                     *)
C1_Witness ==
  /\ backend = "Mongo" /\ max = DefaultCacheSize
  /\ \E id \in GameIDs :
       /\ Len(store[id]) = 2
       /\ store[id][1].stateID = 0 /\ store[id][2].stateID = 1
       /\ CacheValue(cache, id).stateID = 1

(* C4: a get that missed the cache and whose read returns a document older *)
(* than the entry a concurrent set has put into the cache meanwhile leaves *)
(* the cached value of id as it is.                                        *)
C4_GetKeepsFresherCache ==
  [][\A o \in InFlight :
       ( /\ o.kind = "get" /\ Returns(o)
         /\ Found(o.reply) /\ o.reply.tag # "error"
         /\ CacheHas(cache, o.id)
         /\ o.reply.stateID < CacheValue(cache, o.id).stateID )
         => CacheValue(cache', o.id) = CacheValue(cache, o.id)]_vars

(* A get served by the store has returned a document older than the state  *)
(* the cache holds for its id.                                             *)
C4_Witness ==
  /\ ret.kind = "get" /\ ret.viaStore /\ IsState(ret.val)
  /\ CacheHas(cache, ret.id)
  /\ ret.val.stateID < CacheValue(cache, ret.id).stateID

(* The cache as a mapping from ids to values, whatever the recency order. *)
CacheMap(c) == {<<c[i].id, c[i].val>> : i \in DOMAIN c}

(* C5: a set issued while the cache holds an entry for id with a stateID   *)
(* greater than or equal to that of the state changes neither the cached   *)
(* values nor the store and issues no store write.                         *)
C5_StaleSetIsNoOp ==
  [][\A id \in GameIDs, state \in CallerStates :
       ( /\ CacheHas(cache, id)
         /\ CacheValue(cache, id).stateID >= state.stateID
         /\ SetCall(id, state) )
         => (CacheMap(cache') = CacheMap(cache) /\ store' = store /\ ops' = ops)]_vars

(* A set has returned without a store call while the cache holds its id. *)
C5_Witness ==
  /\ ret.kind = "set" /\ ~ret.viaStore /\ ret.outcome = "ok"
  /\ CacheHas(cache, ret.id)

(* C10: the cache never holds more entries than the cacheSize given to the *)
(* constructor, 1000 when none was given.                                  *)
C10_CacheBounded ==
  /\ Len(cache) = Cardinality(CacheIds(cache))
  /\ Len(cache) <= (IF cacheSize.tag = "undefined" THEN DefaultCacheSize
                                                  ELSE cacheSize.n)

(* The cache is full at capacity 1 while the store holds a document of an  *)
(* id that is not cached.                                                  *)
C10_Witness ==
  /\ cacheSize.tag = "number" /\ Len(cache) = cacheSize.n
  /\ \E id \in GameIDs : ~CacheHas(cache, id) /\ Len(store[id]) > 0


(* C2: out-of-order sets.  set(id, a) is applied and returns, then         *)
(* set(id, b) with b < a returns, then get(id) is called, the three calls  *)
(* one after the other with no other call between them: the get returns    *)
(* the state with stateID a.  (scen reaches 6 exactly on this sequence.)   *)
C2_OlderSetDiscarded ==
  scen.st = 6 =>
    /\ ret.kind = "get" /\ ret.id = scen.id /\ ret.outcome = "ok"
    /\ IsState(ret.val) /\ ret.val.stateID = scen.a

(* The sequence has run to its end with a = 1 (and so b = 0). *)
C2_Witness == scen.st = 6 /\ scen.a = 1 /\ ret.kind = "get"

(* C3, as stated: once a get of id has returned stateID k, no get of id    *)
(* that starts later returns a state with a lower stateID.  ret.floor is   *)
(* the highest stateID gets of the id had returned when this get started.  *)
C3_NeverRegresses ==
  (ret.kind = "get" /\ IsState(ret.val)) => ret.val.stateID >= ret.floor

(* C3, amended: the same, for an id whose cache entry has never been       *)
(* evicted.                                                                *)
C3_NeverRegressesUnlessEvicted ==
  (backend \in Cached /\ ret.kind = "get" /\ IsState(ret.val) /\ ret.id \notin evicted)
    => ret.val.stateID >= ret.floor

(* A get of a never evicted id returns stateID 1 after an earlier get of   *)
(* that id had returned 1, in a cache that has evicted another id.         *)
C3_Witness ==
  /\ ret.kind = "get" /\ IsState(ret.val) /\ ret.id \notin evicted
  /\ ret.floor = 1 /\ ret.val.stateID = 1
  /\ evicted # {}

(* The last document persisted for id. *)
LastDoc(id) == store[id][Len(store[id])]

(* C6: cold-cache read.  A get of an id that the cache does not hold and   *)
(* for which the store holds a document goes to read the store; and a get  *)
(* that finds no cache entry for id, neither at its call nor when it       *)
(* resumes, and whose read found the state s that the last set persisted   *)
(* (the store still holds it as its last document) returns s and leaves it *)
(* in the cache, so that the next get is served the same value from the    *)
(* cache.                                                                  *)
C6_ColdGetFillsCache ==
  /\ [][\A id \in GameIDs :
          (GetCall(id) /\ ~CacheHas(cache, id) /\ Len(store[id]) > 0)
            => \E o \in BagToSet(ops') :
                 o.kind = "get" /\ o.id = id /\ o.pc = "await"]_vars
  /\ [][\A o \in InFlight :
          ( /\ o.kind = "get" /\ Returns(o) /\ backend \in Cached
            /\ Found(o.reply) /\ o.reply.tag # "error"
            /\ o.reply.stateID = LastDoc(o.id).stateID
            /\ ~CacheHas(cache, o.id) )
            => /\ ret'.kind = "get" /\ ret'.outcome = "ok"
               /\ ret'.val.stateID = LastDoc(o.id).stateID
               /\ CacheHas(cache', o.id)
               /\ CacheValue(cache', o.id) = ret'.val]_vars

(* C7: a get of an id on which set was never called returns the absence    *)
(* sentinel (undefined or null) and throws nothing, whatever the backend,  *)
(* when the store answers its read.                                        *)
C7_GetOfUnknownId ==
  (ret.kind = "get" /\ ret.id \notin wasSet /\ ret.outcome # "storeError")
    => (ret.outcome = "ok" /\ ret.val.tag \in {"undefined", "null"})

(* C8: has(id) returns true if and only if some set(id) has returned after *)
(* persisting its state, and false for an id never set; it throws nothing  *)
(* when the store answers its lookup.                                      *)
C8_HasIffPersisted ==
  (ret.kind = "has" /\ ret.outcome # "storeError")
    => /\ ret.outcome = "ok"
       /\ (ret.val.tag = "true") <=> (ret.id \in persisted)
       /\ ret.id \notin wasSet => ret.val.tag = "false"

(* C9: eviction.  A set that brings a new id into a full cache pushes out  *)
(* the least recently used id; a get of an id that is not cached reads the *)
(* store; and what a get read from the store carries the identity field    *)
(* the store assigned.                                                     *)
C9_EvictedIdReadFromStore ==
  /\ [][\A id \in GameIDs, state \in CallerStates :
          (Len(cache) = max /\ ~CacheHas(cache, id) /\ SetCall(id, state))
            => (cache[Len(cache)].id \notin CacheIds(cache') /\ Len(cache') = max)]_vars
  /\ [][\A id \in GameIDs :
          (~CacheHas(cache, id) /\ GetCall(id))
            => \E o \in BagToSet(ops') : o.kind = "get" /\ o.id = id /\ o.pc = "await"]_vars
  /\ []((ret.kind = "get" /\ ret.viaStore /\ IsState(ret.val)) => ret.val.hasId)

(* C11: a failure of the store call of a get, set or has is delivered to   *)
(* the caller of that call: the call whose store call has failed ends, in  *)
(* its next step, with the failure as its outcome, issues no further store *)
(* call and leaves the store as it is.                                     *)
C11_StoreFailurePropagates ==
  [][\A o \in InFlight :
       ( /\ o.kind \in {"get", "set", "has"}
         /\ o.pc = "ready" /\ o.reply.tag = "error"
         /\ CopiesIn(o, ops') < CopiesIn(o, ops) )
         => /\ ops' = Finish(o)
            /\ ret'.kind = o.kind /\ ret'.id = o.id
            /\ ret'.outcome = "storeError"
            /\ store' = store]_vars

(* A set whose store write failed has thrown the failure to its caller;    *)
(* the store holds no document of its id.                                  *)
C11_Witness ==
  /\ ret.kind = "set" /\ ret.outcome = "storeError"
  /\ store[ret.id] = <<>>

(* C12: connect() returns normally whether the connection succeeds or      *)
(* fails; a connection failure is never raised to the caller.              *)
C12_ConnectNeverThrows ==
  ret.kind = "connect" => ret.outcome = "ok"

(* C13: cache-hit fast path.  A get of an id the cache holds returns       *)
(* exactly the cached value, issues no store call and leaves the cached    *)
(* values and the store as they are.                                       *)
C13_CacheHitFastPath ==
  [][\A id \in GameIDs :
       (CacheHas(cache, id) /\ GetCall(id))
         => /\ ret'.kind = "get" /\ ret'.id = id /\ ret'.outcome = "ok"
            /\ ret'.val = CacheValue(cache, id)
            /\ ~ret'.viaStore
            /\ ops' = ops
            /\ CacheMap(cache') = CacheMap(cache)
            /\ store' = store]_vars

(* A get has been answered from the cache while the write of the set that  *)
(* cached the state is still pending: the store holds nothing for the id.  *)
C13_Witness ==
  /\ ret.kind = "get" /\ ~ret.viaStore /\ IsState(ret.val)
  /\ backend \in Cached
  /\ store[ret.id] = <<>>
  /\ \E o \in InFlight : o.kind = "set" /\ o.id = ret.id /\ o.pc = "await"

(* C14: InMemory round trip.  The Map holds for an id nothing before any   *)
(* set of the id and after that the state the last set was given, whatever *)
(* its stateID and those of earlier sets; a get reads undefined or that    *)
(* state and a has reads whether set was called, and each returns what it  *)
(* read.  (sets[id].last is undefined until set(id, ...) is called.)       *)
C14_InMemoryRoundTrip ==
  /\ [](backend = "InMemory" =>
          \A id \in GameIDs :
            store[id] = IF sets[id].last = Undefined THEN <<>>
                                                    ELSE <<sets[id].last>>)
  /\ [][\A id \in GameIDs :
          InMemoryGet(id) =>
            \E n \in BagToSet(ops') :
              /\ ops' = Start(n) /\ n.kind = "get" /\ n.id = id /\ n.pc = "ready"
              /\ n.reply = sets[id].last]_vars
  /\ [][\A id \in GameIDs :
          InMemoryHas(id) =>
            \E n \in BagToSet(ops') :
              /\ ops' = Start(n) /\ n.kind = "has" /\ n.id = id /\ n.pc = "ready"
              /\ (n.reply = True) <=> (sets[id].last # Undefined)
              /\ n.reply \in {True, False}]_vars
  /\ [][\A o \in InFlight :
          (backend = "InMemory" /\ o.kind \in {"get", "has"} /\ Returns(o))
            => (ret'.kind = o.kind /\ ret'.id = o.id /\ ret'.outcome = "ok"
                /\ ret'.val = o.reply)]_vars

(* InMemory: a get has returned a state of stateID 0 that replaced one of  *)
(* stateID 1.                                                              *)
C14_Witness ==
  /\ backend = "InMemory" /\ ret.kind = "get"
  /\ IsState(ret.val) /\ ret.val.stateID = 0
  /\ sets[ret.id].top = 1

(* C15: concurrent sets converge on the maximum.  Once every set called on *)
(* an id has completed and the id was never evicted, the cache holds for   *)
(* the id the highest stateID given to set, in whatever order the store    *)
(* writes were carried out; and a set that passes its stale check writes   *)
(* the cache in the same step.                                             *)
C15_ConcurrentSetsConverge ==
  /\ [](\A id \in GameIDs :
          ( /\ backend \in Cached /\ sets[id].top >= 0 /\ id \notin evicted
            /\ \A o \in InFlight : ~(o.kind = "set" /\ o.id = id) )
            => /\ CacheHas(cache, id)
               /\ CacheValue(cache, id).stateID = sets[id].top)
  /\ [][\A id \in GameIDs, state \in CallerStates :
          (SetCall(id, state) /\ ~SetIsStale(CacheValue(cache, id), state))
            => CacheValue(cache', id) = DeleteId(state)]_vars

(* Mongo: two sets of stateID 0 and 1 on one id were in flight together    *)
(* and their inserts were carried out in the other order; both have        *)
(* completed and the cache holds 1.                                        *)
C15_Witness ==
  /\ backend = "Mongo" /\ NoneInFlight /\ evicted = {}
  /\ \E id \in GameIDs :
       /\ Len(store[id]) = 2
       /\ store[id][1].stateID = 1 /\ store[id][2].stateID = 0
       /\ sets[id].top = 1
       /\ CacheValue(cache, id).stateID = 1

(* C16: a get that missed the cache returns the document its own read      *)
(* produced (docs[0], doc), also when a concurrent set has put a  *)
(* newer state into the cache while the read was pending; the cache then   *)
(* goes on holding the newer state, not the value returned.                *)
C16_GetReturnsItsOwnRead ==
  [][\A o \in InFlight :
       ( /\ o.kind = "get" /\ Returns(o)
         /\ Found(o.reply) /\ o.reply.tag # "error" )
         => /\ ret'.kind = "get" /\ ret'.id = o.id /\ ret'.outcome = "ok"
            /\ ret'.val = o.reply
            /\ ( /\ CacheHas(cache, o.id)
                 /\ CacheValue(cache, o.id).stateID > o.reply.stateID )
                 => /\ CacheValue(cache', o.id) # ret'.val
                    /\ CacheValue(cache', o.id).stateID > ret'.val.stateID]_vars

(* Firebase: a get has returned the state of stateID 0 it read from the    *)
(* store while the cache holds stateID 1, written by a set that is still   *)
(* waiting for its store write.                                            *)
C16_Witness ==
  /\ backend = "Firebase"
  /\ ret.kind = "get" /\ ret.viaStore /\ ret.outcome = "ok"
  /\ IsState(ret.val) /\ ret.val.stateID = 0
  /\ CacheValue(cache, ret.id).tag = "state"
  /\ CacheValue(cache, ret.id).stateID = 1
  /\ \E o \in InFlight : o.kind = "set" /\ o.id = ret.id /\ o.pc = "await"

(* The sets of id whose store write is pending. *)
PendingSets(id) == {o \in InFlight : o.kind = "set" /\ o.id = id /\ o.pc = "await"}

(* A set that is not discarded as stale puts its state into the cache in   *)
(* the step in which it issues its store write, the store still unwritten. *)
SetWritesCacheFirst ==
  \A id \in GameIDs, state \in CallerStates :
    (SetCall(id, state) /\ ~SetIsStale(CacheValue(cache, id), state))
      => /\ CacheValue(cache', id) = DeleteId(state)
         /\ store' = store
         /\ \E o \in BagToSet(ops') :
              o.kind = "set" /\ o.id = id /\ o.pc = "await" /\ o.state = DeleteId(state)

(* A get or has of id, called while the store write of the set o is        *)
(* pending, is answered in the same step, without a store call: get with   *)
(* the cached state, which is the state of o or that of a newer set on the *)
(* id, has with true.                                                      *)
AnsweredFromCache(id, o) ==
  /\ GetCall(id) => /\ ops' = ops /\ ret'.kind = "get"
                    /\ ret'.val = CacheValue(cache, id)
                    /\ IsState(ret'.val)
                    /\ \/ ret'.val = o.state
                       \/ /\ ret'.val.stateID > o.state.stateID
                          /\ sets[id].top > o.state.stateID
  /\ HasCall(id) => (ops' = ops /\ ret'.kind = "has" /\ ret'.val = True)

C18_MissingDocWritesNoCache ==
  /\ [][\A o \in InFlight :
          (o.kind = "get" /\ Returns(o) /\ ~Found(o.reply))
            => CacheMap(cache') = CacheMap(cache)]_vars
  /\ [](CacheIds(cache) \subseteq wasSet)

(* A get whose read found no document has returned the absence sentinel    *)
(* while the cache holds its id, put there by a set whose store write is   *)
(* still pending.                                                          *)
C18_Witness ==
  /\ ret.kind = "get" /\ ret.viaStore /\ ret.outcome = "ok"
  /\ ret.val.tag \in {"undefined", "null"}
  /\ CacheHas(cache, ret.id)
  /\ store[ret.id] = <<>>

(* C19: has never changes which ids the cache holds nor the values cached  *)
(* for them, and never changes the store: neither its call, nor the        *)
(* store's existence lookup, nor its return.                               *)
C19_HasChangesNothing ==
  /\ [][\A id \in GameIDs :
          HasCall(id) => (CacheMap(cache') = CacheMap(cache) /\ store' = store)]_vars
  /\ [][\A o \in InFlight :
          (o.kind = "has" /\ CopiesIn(o, ops') < CopiesIn(o, ops))
            => (CacheMap(cache') = CacheMap(cache) /\ store' = store)]_vars

(* A has was answered true by the store's lookup and the cache still does  *)
(* not hold the id.                                                        *)
C19_Witness ==
  /\ ret.kind = "has" /\ ret.viaStore /\ ret.outcome = "ok"
  /\ ret.val = True
  /\ ~CacheHas(cache, ret.id)
  /\ Len(store[ret.id]) > 0

(* The highest stateID among the documents persisted for an id. *)
HighestStored(docs) ==
  CHOOSE n \in StateIDs :
    /\ \E i \in DOMAIN docs : docs[i].stateID = n
    /\ \A i \in DOMAIN docs : docs[i].stateID <= n

(* C20: Mongo, the connector that keeps every document inserted for an id. *)
(* Whenever the store answers the read of a get that missed the cache and  *)
(* the collection of the id is not empty, the document handed back to the  *)
(* get has the highest stateID among the documents persisted for the id.   *)
(* Mongo.get reads find().sort({ _id: -1 }).limit(1), the document         *)
(* inserted last, whatever its stateID.                                     *)
C20_MongoReadsHighest ==
  [][\A o \in InFlight :
       (backend = "Mongo" /\ StoreRead(o) /\ Len(store[o.id]) > 0)
         => \E n \in BagToSet(ops') :
              /\ ops' = Step(o, n)
              /\ IsState(n.reply)
              /\ n.reply.stateID = HighestStored(store[o.id])]_vars

(* C21: every state set hands to the store carries no _id, also when the   *)
(* caller's state carried one, and the cache entry written by that set     *)
(* lacks the field as well: the pending writes and the documents of the    *)
(* store of a cached connector are without _id, and a set that is not      *)
(* stale leaves the cache with an entry without _id.                       *)
C21_IdStripped ==
  /\ [](backend \in Cached => \A o \in InFlight : o.kind = "set" => ~o.state.hasId)
  /\ [](backend \in Cached =>
          \A id \in GameIDs : \A i \in DOMAIN store[id] : ~store[id][i].hasId)
  /\ [][\A id \in GameIDs, state \in CallerStates :
          (SetCall(id, state) /\ ~SetIsStale(CacheValue(cache, id), state))
            => ~CacheValue(cache', id).hasId]_vars

(* Mongo: a set whose caller passed a state carrying _id has persisted it  *)
(* and returned; the document and the cache entry of the id are without    *)
(* _id.                                                                    *)
C21_Witness ==
  /\ backend = "Mongo"
  /\ ret.kind = "set" /\ ret.viaStore /\ ret.outcome = "ok" /\ ret.pre
  /\ Len(store[ret.id]) > 0 /\ ~LastDoc(ret.id).hasId
  /\ CacheHas(cache, ret.id) /\ ~CacheValue(cache, ret.id).hasId

TicketInUse(t) == \E o \in InFlight : o.ticket = t

(* C22: each get, set or has issues at most one store call and completes   *)
(* as soon as that call has returned; no call waits for another one.  A    *)
(* call in flight moves from awaiting its store call to having its answer  *)
(* and from there out of the calls in flight, never back; whatever else is *)
(* in flight, its next step is enabled; and every call that was started    *)
(* completes.                                                              *)
C22_EveryCallCompletes ==
  /\ [][\A o \in InFlight :
          CopiesIn(o, ops') < CopiesIn(o, ops)
            => \/ o.pc = "await" /\ \E n \in BagToSet(ops') :
                    ops' = Step(o, n) /\ n = Answered(o, n.reply)
               \/ o.pc = "ready" /\ ops' = Finish(o)]_vars
  /\ [](\A o \in InFlight : ENABLED Advance(o))
  /\ \A t \in Tickets : TicketInUse(t) ~> ~TicketInUse(t)

(* Two calls on one id are in flight together, a set awaiting its store    *)
(* write and a get that has its answer.                                    *)
C22_Witness ==
  \E o, w \in InFlight :
    /\ o.kind = "get" /\ o.pc = "ready" /\ o.ticket = 1
    /\ w.kind = "set" /\ w.pc = "await" /\ w.ticket = 2
    /\ w.id = o.id

(* C23: cache never behind the store without eviction.  As long as no      *)
(* entry has been evicted, a cache entry for an id holds a stateID at      *)
(* least as high as the document the store returns for the id at present.  *)
C23_CacheNotBehindStore ==
  (backend \in Cached /\ evicted = {}) =>
    \A id \in GameIDs :
      (CacheHas(cache, id) /\ Len(store[id]) > 0)
        => CacheValue(cache, id).stateID
             >= LastDoc(id).stateID

(* The cache, of capacity 1 and without an eviction so far, holds stateID  *)
(* 1 for an id while the store returns stateID 0 for it and no write is    *)
(* pending.                                                                *)
C23_Witness ==
  /\ backend \in Cached /\ evicted = {} /\ max = 1 /\ NoneInFlight
  /\ \E id \in GameIDs :
       /\ CacheHas(cache, id) /\ CacheValue(cache, id).stateID = 1
       /\ Len(store[id]) > 0
       /\ LastDoc(id).stateID = 0

(* C24: cache and store agree at quiescence.  When no call is in flight    *)
(* and no store write has failed, the document the store returns for an id *)
(* the cache holds has the stateID of the cache entry.                     *)
C24_AgreeAtQuiescence ==
  (backend \in Cached /\ NoneInFlight /\ \A id \in GameIDs : ~sets[id].failed) =>
    \A id \in GameIDs :
      CacheHas(cache, id)
        => /\ Len(store[id]) > 0
           /\ LastDoc(id).stateID
                = CacheValue(cache, id).stateID

(* C25: state unchanged on a failed write.  When the store write of        *)
(* set(id, s) has failed and set throws, the cache does not hold s for the *)
(* id, and the same set called again would not be discarded as stale.      *)
C25_FailedWriteLeavesCache ==
  [][\A o \in InFlight :
       (o.kind = "set" /\ Returns(o) /\ o.reply.tag = "error")
         => /\ CacheValue(cache', o.id) # o.state
            /\ ~SetIsStale(CacheValue(cache', o.id), o.state)]_vars

(* A step of a set, get or has on the id a: its call, the store's answer   *)
(* to it, or its return.                                                   *)
StepOn(a) ==
  \/ \E state \in CallerStates : SetCall(a, state) \/ InMemorySet(a, state)
  \/ GetCall(a) \/ HasCall(a) \/ InMemoryGet(a) \/ InMemoryHas(a)
  \/ \E o \in InFlight : o.kind \in {"set", "get", "has"} /\ o.id = a /\ Advance(o)

(* C26: isolation between ids.  A step of a set, get or has on id a leaves *)
(* the documents of every other id b as they are and never changes the     *)
(* value cached for b; it can only drop b's entry, and only when the cache *)
(* is at capacity and b is its least recently used entry.                  *)
C26_IdsIsolated ==
  [][\A a \in GameIDs : \A b \in GameIDs \ {a} :
       StepOn(a) =>
         /\ store'[b] = store[b]
         /\ CacheHas(cache', b) => (CacheHas(cache, b)
                                     /\ CacheValue(cache', b) = CacheValue(cache, b))
         /\ (CacheHas(cache, b) /\ ~CacheHas(cache', b))
              => /\ Len(cache) = max
                 /\ ~CacheHas(cache, a)
                 /\ cache[Len(cache)].id = b]_vars

(* Both ids are cached and persisted, with different stateIDs, in a cache  *)
(* that holds them both.                                                   *)
C26_Witness ==
  /\ backend \in Cached /\ Len(cache) = 2 /\ NoneInFlight
  /\ CacheValue(cache, 1).stateID # CacheValue(cache, 2).stateID
  /\ \A id \in GameIDs :
       Len(store[id]) > 0 /\ LastDoc(id).stateID = CacheValue(cache, id).stateID

(* The engine a Firebase connector was asked for is the realtime database. *)
RequestedRTDB(options) ==
  options.engine = Str("RTDB") \/ options.configEngine = Str("RTDB")

(* C27: a Firebase connector uses the realtime-database path (database()   *)
(* in connect, db.ref in set, get and has) exactly when the engine asked   *)
(* for at construction is 'RTDB', as the engine option or as               *)
(* config.engine; otherwise it uses Firestore.                             *)
C27_EngineSelection ==
  boot.class = "Firebase" =>
    /\ connected => (boot.db = "database" <=> RequestedRTDB(boot.options))
    /\ \A o \in InFlight :
         o.kind \in {"set", "get", "has"}
           => (o.path = "ref" <=> RequestedRTDB(boot.options))

(* The class DBFromEnv is to choose in env, by the precedence of C28; a    *)
(* variable is set when it has a non-empty value.                          *)
ChosenClass(env) ==
  LET set(v) == env[v] # Undefined /\ env[v] # Str("")
  IN  CASE set("MONGO_URI") -> "Mongo"
        [] ~set("MONGO_URI") /\ (\A v \in FirebaseVars : set(v)) -> "Firebase"
        [] ~set("MONGO_URI") /\ ~(\A v \in FirebaseVars : set(v))
             /\ set("MYSQL_URL") -> "MySQL"
        [] ~set("MONGO_URI") /\ ~(\A v \in FirebaseVars : set(v))
             /\ ~set("MYSQL_URL") /\ set("SQLite_URL") -> "SQLite"
        [] ~set("MONGO_URI") /\ ~(\A v \in FirebaseVars : set(v))
             /\ ~set("MYSQL_URL") /\ ~set("SQLite_URL") /\ set("POSTGRE_URL")
             -> "PostgreSQL"
        [] OTHER -> "InMemory"

(* C28: DBFromEnv returns a Mongo connector if MONGO_URI is set, else a    *)
(* Firebase one if the four Firebase variables are all set, else MySQL if  *)
(* MYSQL_URL is set, else SQLite if SQLite_URL is set, else PostgreSQL if  *)
(* POSTGRE_URL is set, else InMemory; and InMemory exactly when none of    *)
(* these holds.                                                            *)
C28_DBFromEnvPrecedence ==
  boot.phase # "start" =>
    /\ boot.phase = "made"
    /\ boot.class = ChosenClass(boot.env)
    /\ boot.class = "InMemory" <=>
         /\ \A v \in UrlVars : ~Truthy(boot.env[v])
         /\ \E v \in FirebaseVars : ~Truthy(boot.env[v])

====
